---- MODULE Spec2Model ----
(***************************************************************************)
(* Model of the financial-signal-processing repository: the three moving   *)
(* average strategies of strategies.py, driven tick by tick as the tests   *)
(* drive them, and the benchmark harness of profiler.py.                   *)
(*                                                                         *)
(* Prices are Python floats.  They are modelled as a binary floating-point *)
(* format with round-to-nearest, ties-to-even, whose significand has       *)
(* Precision bits instead of 53: a value is an integer number of units     *)
(* (the smallest subnormal), representable when it is m * 2^j with         *)
(* m < 2^Precision.  Every float operation of the code is the exact        *)
(* operation followed by FRound, as IEEE-754 defines it.                   *)
(***************************************************************************)
EXTENDS Integers, Sequences, FiniteSets, TLC

\* ----------------------------------------------------------------- bounds
\* Significand width of the modelled float format (53 in binary64).
Precision == 3
\* Longest tick list fed to the strategies.
MaxTicks == 3
\* Largest window size an instance is constructed with.
MaxK == 2

Symbols == {"ABC", "XYZ"}
\* Representable prices: two neighbours and one of a much larger magnitude.
Prices == {4, 5, 56}
\* models.py MarketDataPoint (the timestamp is read by no strategy).
MarketDataPoint == [symbol : Symbols, price : Prices]
\* window_size is a plain int field: the dataclass accepts any int.
WindowSizes == (0 - 1) .. MaxK

VARIABLES
    py_sum,          \* which float summation the interpreter's builtin sum() uses
    ticks,           \* the tick list built so far by the driver
    naive,           \* the NaiveMovingAverageStrategy instance
    windowed,        \* the WindowedMovingAverageStrategy instance
    optimized,       \* the OptimizedNaiveMovingAverageStrategy instance
    sigs_naive,      \* what naive.generate_signals returned, call by call
    sigs_windowed,   \* what windowed.generate_signals returned (or raised)
    sigs_optimized   \* what optimized.generate_signals returned

strat_vars == <<py_sum, ticks, naive, windowed, optimized,
                sigs_naive, sigs_windowed, sigs_optimized>>

\* ------------------------------------------------------- float arithmetic
Abs(x) == IF x < 0 THEN 0 - x ELSE x

RECURSIVE Pow2(_)
Pow2(n) == IF n <= 0 THEN 1 ELSE 2 * Pow2(n - 1)

\* The exponent of the quotient a/b (a >= 0, b > 0): the least j >= 0 with
\* a/b < 2^(Precision + j).  Below 2^Precision the spacing is one unit.
RECURSIVE Exponent(_, _, _)
Exponent(a, b, j) ==
    IF a < b * Pow2(Precision + j) THEN j ELSE Exponent(a, b, j + 1)

\* The float nearest to the rational a/b (b > 0), ties to the even significand.
FRound(a, b) ==
    LET mag == Abs(a)
        d == b * Pow2(Exponent(mag, b, 0))
        q == mag \div d
        r == mag % d
        up == (2 * r > d) \/ (2 * r = d /\ q % 2 = 1)
        m == IF up THEN q + 1 ELSE q
        v == m * (d \div b)
    IN IF a < 0 THEN 0 - v ELSE v

FAdd(x, y) == FRound(x + y, 1)
FSub(x, y) == FRound(x - y, 1)
\* float / int: the int converts exactly, the quotient is rounded once.
FDiv(x, n) == FRound(x, n)

\* Left-to-right float summation: sum() before CPython 3.12 and the
\* running sums the strategies keep.
RECURSIVE FoldSum(_, _)
FoldSum(total, xs) ==
    IF xs = <<>> THEN total ELSE FoldSum(FAdd(total, Head(xs)), Tail(xs))

\* Neumaier compensated summation: sum() of floats since CPython 3.12.
RECURSIVE NeumaierSum(_, _, _)
NeumaierSum(total, c, xs) ==
    IF xs = <<>>
    THEN IF c # 0 THEN FAdd(total, c) ELSE total
    ELSE LET x == Head(xs)
             t == FAdd(total, x)
             e == IF Abs(total) >= Abs(x)
                  THEN FAdd(FSub(total, t), x)
                  ELSE FAdd(FSub(x, t), total)
         IN NeumaierSum(t, FAdd(c, e), Tail(xs))

\* sum(prices) at strategies.py:41, under the interpreter the program runs on.
builtin_sum(xs) ==
    IF py_sum = "neumaier" THEN NeumaierSum(0, 0, xs) ELSE FoldSum(0, xs)

\* ------------------------------------------------------------ dictionaries
EmptyDict == [x \in {} |-> 0]
DictSet(d, k, v) == [x \in (DOMAIN d) \cup {k} |-> IF x = k THEN v ELSE d[x]]
DictGet(d, k, default) == IF k \in DOMAIN d THEN d[k] ELSE default

\* -------------------------------------------------------------- strategies
BUY == <<"BUY">>
SELL == <<"SELL">>
NoSignal == <<>>

\* What a generate_signals call gives back: a list of signals, or an exception.
Returned(signals) == [raised |-> "none", signals |-> signals]
Raised(exc) == [raised |-> exc, signals |-> <<>>]

\* The rule with the tie given to BUY (>= written for >).
signal_with_tie_as_buy(price, avg) ==
    IF price >= avg THEN <<"BUY">>
    ELSE IF price < avg THEN <<"SELL">>
    ELSE <<>>

signal_from_price_vs_avg(price, avg) ==
    IF price > avg THEN BUY
    ELSE IF price < avg THEN SELL
    ELSE NoSignal

\* Constructors: every dict field comes from default_factory=dict, a fresh
\* empty dict per instance.
NaiveMovingAverageStrategy == [prices_by_symbol |-> EmptyDict]

WindowedMovingAverageStrategy(window_size) ==
    [window_size |-> window_size,
     window_by_symbol |-> EmptyDict,
     sum_by_symbol |-> EmptyDict]

OptimizedNaiveMovingAverageStrategy ==
    [sum_by_symbol |-> EmptyDict, count_by_symbol |-> EmptyDict]

\* The naive strategy with one history shared by all symbols.
NaiveWithSharedHistory(self, tick) ==
    LET prices == Append(DictGet(self.prices_by_symbol, "ABC", <<>>),
                         tick.price)
        avg == FDiv(builtin_sum(prices), Len(prices))
    IN [self |-> [prices_by_symbol |->
                      DictSet(self.prices_by_symbol, "ABC", prices)],
        ret |-> Returned(signal_from_price_vs_avg(tick.price, avg))]

NaiveGenerateSignals(self, tick) ==
    LET prices == Append(DictGet(self.prices_by_symbol, tick.symbol, <<>>),
                         tick.price)
        avg == FDiv(builtin_sum(prices), Len(prices))
    IN [self |-> [prices_by_symbol |->
                      DictSet(self.prices_by_symbol, tick.symbol, prices)],
        ret |-> Returned(signal_from_price_vs_avg(tick.price, avg))]

\* An append that never drops (a list, or a deque built without maxlen).
AppendWithoutMaxlen(window, maxlen, x) == Append(window, x)

\* The running sum divided by the window size instead of the buffer length.
AverageOverWindowSize(total, window, maxlen) == FDiv(total, maxlen)

\* avg = self.sum_by_symbol[tick.symbol] / len(window)
WindowAverage(total, window, maxlen) == FDiv(total, Len(window))

\* deque.append on a deque(maxlen=k): a full deque drops its leftmost element.
DequeAppend(window, maxlen, x) ==
    IF maxlen = 0 THEN window
    ELSE IF Len(window) = maxlen THEN Append(Tail(window), x)
    ELSE Append(window, x)

WindowedGenerateSignals(self, tick) ==
    LET s == tick.symbol
        known == s \in DOMAIN self.window_by_symbol
    IN IF ~known /\ self.window_size < 0
       THEN \* deque(maxlen=negative) raises before anything is stored
            [self |-> self, ret |-> Raised("ValueError")]
       ELSE
       LET window0 == IF known THEN self.window_by_symbol[s] ELSE <<>>
           sum0 == IF known THEN self.sum_by_symbol[s] ELSE 0
           maxlen == self.window_size
           full == Len(window0) = maxlen
       IN IF full /\ window0 = <<>>
          THEN \* window[0] on an empty deque; the new entries stay stored
               [self |-> [self EXCEPT
                            !.window_by_symbol = DictSet(@, s, window0),
                            !.sum_by_symbol = DictSet(@, s, sum0)],
                ret |-> Raised("IndexError")]
          ELSE
          LET window == DequeAppend(window0, maxlen, tick.price)
              sum1 == IF full /\ Len(window) = maxlen
                      THEN FSub(sum0, Head(window0))
                      ELSE sum0
              sum2 == FAdd(sum1, tick.price)
              avg == WindowAverage(sum2, window, maxlen)
          IN [self |-> [self EXCEPT
                          !.window_by_symbol = DictSet(@, s, window),
                          !.sum_by_symbol = DictSet(@, s, sum2)],
              ret |-> Returned(signal_from_price_vs_avg(tick.price, avg))]

\* The optimized strategy without the store of the new count.
OptimizedWithoutCountStore(self, tick) ==
    LET s == FAdd(DictGet(self.sum_by_symbol, tick.symbol, 0), tick.price)
        c == DictGet(self.count_by_symbol, tick.symbol, 0) + 1
        avg == FDiv(s, c)
    IN [self |-> [sum_by_symbol |-> DictSet(self.sum_by_symbol, tick.symbol, s),
                  count_by_symbol |-> self.count_by_symbol],
        ret |-> Returned(signal_from_price_vs_avg(tick.price, avg))]

OptimizedGenerateSignals(self, tick) ==
    LET s == FAdd(DictGet(self.sum_by_symbol, tick.symbol, 0), tick.price)
        c == DictGet(self.count_by_symbol, tick.symbol, 0) + 1
        avg == FDiv(s, c)
    IN [self |-> [sum_by_symbol |-> DictSet(self.sum_by_symbol, tick.symbol, s),
                  count_by_symbol |->
                      DictSet(self.count_by_symbol, tick.symbol, c)],
        ret |-> Returned(signal_from_price_vs_avg(tick.price, avg))]

\* ------------------------------------------------- driving the strategies
\* As in tests/test_strategies.py: one tick list, every strategy fed the
\* list in order, each call's return value collected.
StratInit ==
    /\ py_sum \in {"fold", "neumaier"}
    /\ ticks = <<>>
    /\ naive = NaiveMovingAverageStrategy
    /\ \E k \in WindowSizes : windowed = WindowedMovingAverageStrategy(k)
    /\ optimized = OptimizedNaiveMovingAverageStrategy
    /\ sigs_naive = <<>>
    /\ sigs_windowed = <<>>
    /\ sigs_optimized = <<>>

NewTick(tick) ==
    /\ Len(ticks) < MaxTicks
    /\ Len(sigs_naive) = Len(ticks)
    /\ Len(sigs_windowed) = Len(ticks)
    /\ Len(sigs_optimized) = Len(ticks)
    /\ ticks' = Append(ticks, tick)
    /\ UNCHANGED <<py_sum, naive, windowed, optimized,
                   sigs_naive, sigs_windowed, sigs_optimized>>

NaiveStep ==
    /\ Len(sigs_naive) < Len(ticks)
    /\ LET r == NaiveGenerateSignals(naive, ticks[Len(sigs_naive) + 1])
       IN /\ naive' = r.self
          /\ sigs_naive' = Append(sigs_naive, r.ret)
    /\ UNCHANGED <<py_sum, ticks, windowed, optimized,
                   sigs_windowed, sigs_optimized>>

WindowedStep ==
    /\ Len(sigs_windowed) < Len(ticks)
    /\ LET r == WindowedGenerateSignals(windowed, ticks[Len(sigs_windowed) + 1])
       IN /\ windowed' = r.self
          /\ sigs_windowed' = Append(sigs_windowed, r.ret)
    /\ UNCHANGED <<py_sum, ticks, naive, optimized,
                   sigs_naive, sigs_optimized>>

OptimizedStep ==
    /\ Len(sigs_optimized) < Len(ticks)
    /\ LET r == OptimizedGenerateSignals(optimized,
                                         ticks[Len(sigs_optimized) + 1])
       IN /\ optimized' = r.self
          /\ sigs_optimized' = Append(sigs_optimized, r.ret)
    /\ UNCHANGED <<py_sum, ticks, naive, windowed,
                   sigs_naive, sigs_windowed>>

\* ------------------------------------------------------ benchmark harness
\* Optional values: None, or a one-element tuple holding the value.
None == <<>>
Some(v) == <<v>>

\* Longest tick list a benchmark is run over.
MaxBenchTicks == 2
\* Largest repeats argument.
MaxRepeats == 2
\* Largest duration a trial is measured to take (perf_counter difference).
MaxDuration == 2

Durations == 1 .. MaxDuration
TimeLimits == {None, Some(1)}
\* The benchmarked tick lists: one symbol suffices for the harness.
BenchPoints == {t \in MarketDataPoint : t.symbol = "ABC" /\ t.price <= 5}
RECURSIVE TickLists(_)
TickLists(n) ==
    IF n = 0 THEN {<<>>}
    ELSE LET shorter == TickLists(n - 1)
         IN shorter \cup {Append(l, t) : l \in {x \in shorter : Len(x) = n - 1},
                                         t \in BenchPoints}

\* main.py's strategy_factories dict, in insertion order.
FactoryNames == <<"NaiveMovingAverageStrategy",
                  "WindowedMovingAverageStrategy_k",
                  "OptimizedNaiveMovingAverageStrategy">>

VARIABLES
    b_ticks,         \* benchmark_strategies argument: ticks
    repeats,         \* argument: repeats
    time_limit_s,    \* argument: time_limit_s (None or a limit)
    cprofile_dir,    \* argument: cprofile_dir (None or a directory)
    measure_memory,  \* argument: measure_memory
    window_arg,      \* args.window, captured by the windowed factory
    pc,              \* where the harness is
    i_factory,       \* index of the factory being benchmarked
    trial,           \* time_strategy: trials completed in this call
    strategy,        \* the instance of the running trial
    i_tick,          \* run_strategy: ticks fed so far
    signal_count,    \* run_strategy: signal_count
    best,            \* time_strategy: best
    dts,             \* time_strategy: the dt measured by each trial of this call
    secs,            \* benchmark_strategies: secs
    peak_mb,         \* benchmark_strategies: peak_mb
    results,         \* benchmark_strategies: results
    profiled,        \* the cProfile files written so far
    run_log          \* what each finished run_strategy call returned

bench_vars == <<b_ticks, repeats, time_limit_s, cprofile_dir, measure_memory,
                window_arg, pc, i_factory, trial, strategy, i_tick,
                signal_count, best, dts, secs, peak_mb, results, profiled,
                run_log>>

NoStrategy == [kind |-> "none"]

\* A factory handing out the instance of the previous trial again.
FactoryReusingInstance(name) ==
    LET kind == IF name = "NaiveMovingAverageStrategy" THEN "naive"
                ELSE IF name = "WindowedMovingAverageStrategy_k"
                THEN "windowed" ELSE "optimized"
    IN IF strategy.kind = kind THEN strategy
       ELSE IF kind = "naive"
       THEN [kind |-> "naive", obj |-> NaiveMovingAverageStrategy]
       ELSE IF kind = "windowed"
       THEN [kind |-> "windowed",
             obj |-> WindowedMovingAverageStrategy(window_arg)]
       ELSE [kind |-> "optimized", obj |-> OptimizedNaiveMovingAverageStrategy]

\* The three lambdas of main.py: each call constructs a new instance.
Factory(name) ==
    IF name = "NaiveMovingAverageStrategy"
    THEN [kind |-> "naive", obj |-> NaiveMovingAverageStrategy]
    ELSE IF name = "WindowedMovingAverageStrategy_k"
    THEN [kind |-> "windowed",
          obj |-> WindowedMovingAverageStrategy(window_arg)]
    ELSE [kind |-> "optimized", obj |-> OptimizedNaiveMovingAverageStrategy]

\* strategy.generate_signals(t): dispatch on the instance's class.
GenerateSignals(strat, tick) ==
    LET r == IF strat.kind = "naive"
             THEN NaiveGenerateSignals(strat.obj, tick)
             ELSE IF strat.kind = "windowed"
             THEN WindowedGenerateSignals(strat.obj, tick)
             ELSE OptimizedGenerateSignals(strat.obj, tick)
    IN [self |-> [kind |-> strat.kind, obj |-> r.self], ret |-> r.ret]

\* A trial starts: strategy = factory(), then run_strategy's signal_count = 0.
StartRun(name, label) ==
    /\ strategy' = Factory(name)
    /\ i_tick' = 0
    /\ signal_count' = 0
    /\ pc' = label

BenchInit ==
    /\ b_ticks \in TickLists(MaxBenchTicks)
    /\ repeats \in 0 .. MaxRepeats
    /\ time_limit_s \in TimeLimits
    /\ cprofile_dir \in {None, Some("profiles")}
    /\ measure_memory \in BOOLEAN
    /\ window_arg = MaxK
    /\ pc = "next_factory"
    /\ i_factory = 0
    /\ trial = 0
    /\ strategy = NoStrategy
    /\ i_tick = 0
    /\ signal_count = 0
    /\ best = None
    /\ dts = <<>>
    /\ secs = None
    /\ peak_mb = None
    /\ results = <<>>
    /\ profiled = <<>>
    /\ run_log = <<>>

\* benchmark_strategies: the for loop takes the next factory and calls
\* time_strategy, or returns results.
NextFactory ==
    /\ pc = "next_factory"
    /\ IF i_factory < Len(FactoryNames)
       THEN /\ i_factory' = i_factory + 1
            /\ best' = None
            /\ trial' = 0
            /\ dts' = <<>>
            /\ pc' = "time_loop"
       ELSE /\ pc' = "done"
            /\ UNCHANGED <<i_factory, best, trial, dts>>
    /\ UNCHANGED <<b_ticks, repeats, time_limit_s, cprofile_dir,
                   measure_memory, window_arg, strategy, i_tick, signal_count,
                   secs, peak_mb, results, profiled, run_log>>

\* time_strategy: for _ in range(repeats): strategy = factory(); t0 = ...
TimeTrialStart ==
    /\ pc = "time_loop"
    /\ trial < repeats
    /\ StartRun(FactoryNames[i_factory], "time_run")
    /\ UNCHANGED <<b_ticks, repeats, time_limit_s, cprofile_dir,
                   measure_memory, window_arg, i_factory, trial, best, dts,
                   secs, peak_mb, results, profiled, run_log>>

\* time_strategy: the loop is exhausted, return best.
TimeReturnBest ==
    /\ pc = "time_loop"
    /\ trial >= repeats
    /\ secs' = best
    /\ pc' = "timed"
    /\ UNCHANGED <<b_ticks, repeats, time_limit_s, cprofile_dir,
                   measure_memory, window_arg, i_factory, trial, strategy,
                   i_tick, signal_count, best, dts, peak_mb, results,
                   profiled, run_log>>

\* run_strategy: one iteration of for t in ticks.
RunTick ==
    /\ pc \in {"time_run", "mem_run", "prof_run"}
    /\ i_tick < Len(b_ticks)
    /\ LET r == GenerateSignals(strategy, b_ticks[i_tick + 1])
       IN /\ strategy' = r.self
          /\ signal_count' = signal_count + Len(r.ret.signals)
    /\ i_tick' = i_tick + 1
    /\ UNCHANGED <<b_ticks, repeats, time_limit_s, cprofile_dir,
                   measure_memory, window_arg, pc, i_factory, trial, best,
                   dts, secs, peak_mb, results, profiled, run_log>>

RunReturned == Append(run_log, [name |-> FactoryNames[i_factory],
                                within |-> pc,
                                count |-> signal_count])

\* time_strategy: run_strategy returned; dt is measured and compared.
TimeTrialEnd(dt) ==
    /\ pc = "time_run"
    /\ i_tick = Len(b_ticks)
    /\ run_log' = RunReturned
    /\ dts' = Append(dts, dt)
    /\ IF time_limit_s # None /\ dt > time_limit_s[1]
       THEN /\ secs' = None
            /\ pc' = "timed"
            /\ UNCHANGED <<best, trial>>
       ELSE /\ best' = IF best = None \/ dt < best[1] THEN Some(dt) ELSE best
            /\ trial' = trial + 1
            /\ pc' = "time_loop"
            /\ UNCHANGED secs
    /\ UNCHANGED <<b_ticks, repeats, time_limit_s, cprofile_dir,
                   measure_memory, window_arg, i_factory, strategy, i_tick,
                   signal_count, peak_mb, results, profiled>>

\* The memory guard without its test of secs.
MeasureMemoryEvenAfterTimeout == measure_memory

\* if measure_memory and secs is not None
ShouldMeasureMemory == measure_memory /\ secs # None

\* benchmark_strategies: peak_mb = None; measure memory only if the timing
\* finished.
AfterTiming ==
    /\ pc = "timed"
    /\ peak_mb' = None
    /\ IF ShouldMeasureMemory
       THEN StartRun(FactoryNames[i_factory], "mem_run")
       ELSE /\ pc' = "append"
            /\ UNCHANGED <<strategy, i_tick, signal_count>>
    /\ UNCHANGED <<b_ticks, repeats, time_limit_s, cprofile_dir,
                   measure_memory, window_arg, i_factory, trial, best, dts,
                   secs, results, profiled, run_log>>

\* peak_memory_tracemalloc: run_strategy returned, the peak is read.
MemoryEnd(peak) ==
    /\ pc = "mem_run"
    /\ i_tick = Len(b_ticks)
    /\ run_log' = RunReturned
    /\ peak_mb' = Some(peak)
    /\ pc' = "append"
    /\ UNCHANGED <<b_ticks, repeats, time_limit_s, cprofile_dir,
                   measure_memory, window_arg, i_factory, trial, strategy,
                   i_tick, signal_count, best, dts, secs, results, profiled>>

BenchmarkResult(name, n, seconds, peak) ==
    [strategy_name |-> name, n_ticks |-> n, seconds |-> seconds,
     peak_memory_mb |-> peak]

\* benchmark_strategies: results.append(...), then the cProfile run if any.
AppendResult ==
    /\ pc = "append"
    /\ results' = Append(results,
                         BenchmarkResult(FactoryNames[i_factory],
                                         Len(b_ticks), secs, peak_mb))
    /\ IF cprofile_dir # None /\ secs # None
       THEN StartRun(FactoryNames[i_factory], "prof_run")
       ELSE /\ pc' = "next_factory"
            /\ UNCHANGED <<strategy, i_tick, signal_count>>
    /\ UNCHANGED <<b_ticks, repeats, time_limit_s, cprofile_dir,
                   measure_memory, window_arg, i_factory, trial, best, dts,
                   secs, peak_mb, profiled, run_log>>

\* profile_cprofile: run_strategy returned, the stats file is written.
ProfileEnd ==
    /\ pc = "prof_run"
    /\ i_tick = Len(b_ticks)
    /\ run_log' = RunReturned
    /\ profiled' = Append(profiled, FactoryNames[i_factory])
    /\ pc' = "next_factory"
    /\ UNCHANGED <<b_ticks, repeats, time_limit_s, cprofile_dir,
                   measure_memory, window_arg, i_factory, trial, strategy,
                   i_tick, signal_count, best, dts, secs, peak_mb, results>>

\* The harness at rest, for the specification that drives the strategies.
BenchIdle ==
    /\ b_ticks = <<>>
    /\ repeats = 0
    /\ time_limit_s = None
    /\ cprofile_dir = None
    /\ measure_memory = FALSE
    /\ window_arg = MaxK
    /\ pc = "idle"
    /\ i_factory = 0
    /\ trial = 0
    /\ strategy = NoStrategy
    /\ i_tick = 0
    /\ signal_count = 0
    /\ best = None
    /\ dts = <<>>
    /\ secs = None
    /\ peak_mb = None
    /\ results = <<>>
    /\ profiled = <<>>
    /\ run_log = <<>>

\* The directly driven strategies at rest, for the harness's specification.
StratIdle ==
    /\ py_sum \in {"fold", "neumaier"}
    /\ ticks = <<>>
    /\ naive = NaiveMovingAverageStrategy
    /\ windowed = WindowedMovingAverageStrategy(MaxK)
    /\ optimized = OptimizedNaiveMovingAverageStrategy
    /\ sigs_naive = <<>>
    /\ sigs_windowed = <<>>
    /\ sigs_optimized = <<>>

vars == <<strat_vars, bench_vars>>

Init == StratInit /\ BenchIdle

Next ==
    \/ \E tick \in MarketDataPoint : NewTick(tick) /\ UNCHANGED bench_vars
    \/ NaiveStep /\ UNCHANGED bench_vars
    \/ WindowedStep /\ UNCHANGED bench_vars
    \/ OptimizedStep /\ UNCHANGED bench_vars

Spec == Init /\ [][Next]_vars

BenchStartState == StratIdle /\ BenchInit

BenchNext ==
    \/ NextFactory /\ UNCHANGED strat_vars
    \/ TimeTrialStart /\ UNCHANGED strat_vars
    \/ TimeReturnBest /\ UNCHANGED strat_vars
    \/ RunTick /\ UNCHANGED strat_vars
    \/ \E dt \in Durations : TimeTrialEnd(dt) /\ UNCHANGED strat_vars
    \/ AfterTiming /\ UNCHANGED strat_vars
    \/ \E peak \in {1} : MemoryEnd(peak) /\ UNCHANGED strat_vars
    \/ AppendResult /\ UNCHANGED strat_vars
    \/ ProfileEnd /\ UNCHANGED strat_vars

BenchSpec == BenchStartState /\ [][BenchNext]_vars

\* ------------------------------------------------------------------ claims
\* Helpers for stating the claims.
Min(a, b) == IF a <= b THEN a ELSE b

RECURSIVE SeqSum(_)
SeqSum(xs) == IF xs = <<>> THEN 0 ELSE Head(xs) + SeqSum(Tail(xs))

RECURSIVE SeqSumAbs(_)
SeqSumAbs(xs) == IF xs = <<>> THEN 0 ELSE Abs(Head(xs)) + SeqSumAbs(Tail(xs))

RECURSIVE PricesOfSymbol(_, _)
PricesOfSymbol(ts, s) ==
    IF ts = <<>> THEN <<>>
    ELSE IF Head(ts).symbol = s
    THEN <<Head(ts).price>> \o PricesOfSymbol(Tail(ts), s)
    ELSE PricesOfSymbol(Tail(ts), s)

\* The first n ticks of the list: those an instance with n calls has been fed.
Fed(n) == SubSeq(ticks, 1, n)
SymbolsFed(n) == {ticks[j].symbol : j \in 1 .. n}
LastPrices(xs, m) == SubSeq(xs, Len(xs) - m + 1, Len(xs))
FirstOfSymbol(j) == \A i \in 1 .. (j - 1) : ticks[i].symbol # ticks[j].symbol
SingleSymbol == \A i, j \in DOMAIN ticks : ticks[i].symbol = ticks[j].symbol
ValidWindow == windowed.window_size >= 1

\* C1: fed the same single-symbol tick list in the same order, the naive and
\* the optimized strategy return the same signal at every tick position.
C1_NaiveMatchesOptimized ==
    SingleSymbol =>
        \A j \in 1 .. Min(Len(sigs_naive), Len(sigs_optimized)) :
            sigs_naive[j] = sigs_optimized[j]

\* The same statement where sum() adds left to right (CPython before 3.12).
C1_UnderLeftFoldSum == (py_sum = "fold") => C1_NaiveMatchesOptimized

\* The decision rule applied to one call's return value.
FollowsRule(ret, price, avg) ==
    /\ ret.raised = "none"
    /\ (price > avg) => ret.signals = <<"BUY">>
    /\ (price < avg) => ret.signals = <<"SELL">>
    /\ (price = avg) => ret.signals = <<>>

WellFormed(ret) ==
    /\ Len(ret.signals) <= 1
    /\ \A i \in DOMAIN ret.signals : ret.signals[i] \in {"BUY", "SELL"}

\* The average each variant holds for symbol s after its latest tick of s.
NaiveAvg(s) ==
    FDiv(builtin_sum(naive.prices_by_symbol[s]),
         Len(naive.prices_by_symbol[s]))
WindowedAverageOf(s) ==
    FDiv(windowed.sum_by_symbol[s], Len(windowed.window_by_symbol[s]))
OptimizedAvg(s) ==
    FDiv(optimized.sum_by_symbol[s], optimized.count_by_symbol[s])

\* C2: every variant returns [BUY] when the tick's price is above the
\* variant's average after including the tick, [SELL] when below, [] when
\* equal; never more than one signal, never another value.
C2_DecisionRule ==
    /\ Len(sigs_naive) > 0 =>
          LET t == ticks[Len(sigs_naive)]
          IN FollowsRule(sigs_naive[Len(sigs_naive)], t.price,
                         NaiveAvg(t.symbol))
    /\ (ValidWindow /\ Len(sigs_windowed) > 0) =>
          LET t == ticks[Len(sigs_windowed)]
          IN FollowsRule(sigs_windowed[Len(sigs_windowed)], t.price,
                         WindowedAverageOf(t.symbol))
    /\ Len(sigs_optimized) > 0 =>
          LET t == ticks[Len(sigs_optimized)]
          IN FollowsRule(sigs_optimized[Len(sigs_optimized)], t.price,
                         OptimizedAvg(t.symbol))
    /\ \A j \in DOMAIN sigs_naive : WellFormed(sigs_naive[j])
    /\ \A j \in DOMAIN sigs_windowed : WellFormed(sigs_windowed[j])
    /\ \A j \in DOMAIN sigs_optimized : WellFormed(sigs_optimized[j])

\* All three outcomes have been returned, by all three variants.
C2_Witness ==
    /\ ValidWindow
    /\ \A log \in {sigs_naive, sigs_windowed, sigs_optimized} :
          \A out \in {<<"BUY">>, <<"SELL">>, <<>>} :
             \E j \in DOMAIN log : log[j].signals = out /\ log[j].raised = "none"

\* C3: with window size k >= 1 no symbol's buffer ever holds more than k
\* prices.
C3_WindowBounded ==
    ValidWindow =>
        \A s \in DOMAIN windowed.window_by_symbol :
            Len(windowed.window_by_symbol[s]) <= windowed.window_size

\* A symbol has been fed more than k ticks and its buffer is full.
C3_Witness ==
    /\ ValidWindow
    /\ \E s \in DOMAIN windowed.window_by_symbol :
          /\ Len(PricesOfSymbol(Fed(Len(sigs_windowed)), s))
                > windowed.window_size
          /\ Len(windowed.window_by_symbol[s]) = windowed.window_size

\* C4: with window size k >= 1 the running sum of every symbol equals the
\* arithmetic sum of the prices in its buffer.  The equality is stated up to
\* the floating-point tolerance the specification grants: a relative error
\* of one rounding unit (2^-Precision) per buffered price.  Exact equality,
\* as the claim words it, is stronger still.
C4_SumEqualsWindowSum ==
    ValidWindow =>
        \A s \in DOMAIN windowed.window_by_symbol :
            LET w == windowed.window_by_symbol[s]
            IN Abs(windowed.sum_by_symbol[s] - SeqSum(w)) * Pow2(Precision)
                  <= Len(w) * SeqSumAbs(w)

\* While no price has been evicted the running sum is within that tolerance.
C4_WhileFilling ==
    ValidWindow =>
        \A s \in DOMAIN windowed.window_by_symbol :
            LET w == windowed.window_by_symbol[s]
            IN Len(PricesOfSymbol(Fed(Len(sigs_windowed)), s))
                   <= windowed.window_size
               => Abs(windowed.sum_by_symbol[s] - SeqSum(w)) * Pow2(Precision)
                     <= Len(w) * SeqSumAbs(w)

\* C5: a window size of zero or below is rejected when the instance is
\* constructed: generate_signals is only ever called on an instance whose
\* window size is positive, and no call fails while a tick is processed.
C5_RejectedAtConstruction ==
    \A j \in DOMAIN sigs_windowed :
        ValidWindow /\ sigs_windowed[j].raised = "none"

\* C8: the first tick of a symbol the instance has not seen yields [],
\* whatever its price, for every variant.
C8_FirstTickNoSignal ==
    /\ \A j \in DOMAIN sigs_naive :
          FirstOfSymbol(j) => sigs_naive[j] = Returned(<<>>)
    /\ ValidWindow =>
          \A j \in DOMAIN sigs_windowed :
             FirstOfSymbol(j) => sigs_windowed[j] = Returned(<<>>)
    /\ \A j \in DOMAIN sigs_optimized :
          FirstOfSymbol(j) => sigs_optimized[j] = Returned(<<>>)

\* Every variant has processed the first ticks of two symbols, one of them
\* after other ticks.
C8_Witness ==
    /\ ValidWindow
    /\ windowed.window_size > 1
    /\ Len(ticks) = 3
    /\ ticks[1].symbol = ticks[2].symbol
    /\ ticks[3].symbol # ticks[1].symbol
    /\ Len(sigs_naive) = 3
    /\ Len(sigs_windowed) = 3
    /\ Len(sigs_optimized) = 3

\* C9: the keys of every dictionary of an instance are exactly the symbols
\* of the ticks the instance has processed; zero ticks leave no state.
C9_KeysAreSymbolsSeen ==
    /\ DOMAIN naive.prices_by_symbol = SymbolsFed(Len(sigs_naive))
    /\ ValidWindow =>
          /\ DOMAIN windowed.window_by_symbol = SymbolsFed(Len(sigs_windowed))
          /\ DOMAIN windowed.sum_by_symbol = SymbolsFed(Len(sigs_windowed))
    /\ DOMAIN optimized.sum_by_symbol = SymbolsFed(Len(sigs_optimized))
    /\ DOMAIN optimized.count_by_symbol = SymbolsFed(Len(sigs_optimized))

\* Two symbols have been processed by every variant while a third tick waits.
C9_Witness ==
    /\ ValidWindow
    /\ Len(ticks) = 3
    /\ Len(sigs_naive) = 2
    /\ Len(sigs_windowed) = 2
    /\ Len(sigs_optimized) = 2
    /\ Cardinality(SymbolsFed(2)) = 2
    /\ Cardinality(SymbolsFed(3)) = 2

\* The buffer of symbol s holds the last min(k, n) prices fed for s, in order.
BufferIsLastPrices(s) ==
    LET fed == PricesOfSymbol(Fed(Len(sigs_windowed)), s)
    IN windowed.window_by_symbol[s]
          = LastPrices(fed, Min(windowed.window_size, Len(fed)))

\* The average of symbol s is the mean of its buffered prices, up to one
\* rounding unit per buffered price and one for the division.
AvgIsMeanOfBuffer(s) ==
    LET w == windowed.window_by_symbol[s]
    IN Abs(WindowedAverageOf(s) * Len(w) - SeqSum(w)) * Pow2(Precision)
          <= (Len(w) + 1) * SeqSumAbs(w)

\* C10: with window size k >= 1, after n ticks of a symbol its buffer holds
\* exactly the last min(k, n) prices in arrival order, and the average the
\* tick's price is compared against is the mean of those prices.
C10_LastPricesAndTheirMean ==
    ValidWindow =>
        \A s \in DOMAIN windowed.window_by_symbol :
            BufferIsLastPrices(s) /\ AvgIsMeanOfBuffer(s)

\* The buffer half of C10 on its own.
C10_BufferOnly ==
    ValidWindow =>
        \A s \in DOMAIN windowed.window_by_symbol : BufferIsLastPrices(s)

\* ------------------------------------------------- claims on the harness
RunStates == {"time_run", "mem_run", "prof_run"}

RECURSIVE SeqMin(_)
SeqMin(xs) ==
    IF Len(xs) = 1 THEN xs[1] ELSE Min(Head(xs), SeqMin(Tail(xs)))

\* Some trial of the current time_strategy call measured more than the limit.
LimitExceeded ==
    /\ time_limit_s # None
    /\ \E j \in DOMAIN dts : dts[j] > time_limit_s[1]

\* The runs time_strategy has completed for the current factory.
TimedRuns ==
    {j \in DOMAIN run_log : /\ run_log[j].name = FactoryNames[i_factory]
                            /\ run_log[j].within = "time_run"}

\* C6: for any repeats and any limit, time_strategy returns None exactly when
\* some trial it ran measured more than time_limit_s, and otherwise the
\* minimum over all repeats trials; a duration is compared only once its
\* trial has been fed every tick.
C6_NoneIffLimitExceeded ==
    /\ pc = "timed" =>
          /\ (secs = None) <=> LimitExceeded
          /\ secs # None => (Len(dts) = repeats /\ secs[1] = SeqMin(dts))
    /\ pc \in {"time_loop", "time_run", "timed"} =>
          Len(dts) = Cardinality(TimedRuns)

\* The same statement for calls that run at least one trial.
C6_WithAtLeastOneTrial == (repeats >= 1) => C6_NoneIffLimitExceeded

\* An instance as its constructor leaves it: every dictionary empty.
IsFresh(strat, name) ==
    IF name = "NaiveMovingAverageStrategy"
    THEN strat.kind = "naive" /\ DOMAIN strat.obj.prices_by_symbol = {}
    ELSE IF name = "WindowedMovingAverageStrategy_k"
    THEN /\ strat.kind = "windowed"
         /\ DOMAIN strat.obj.window_by_symbol = {}
         /\ DOMAIN strat.obj.sum_by_symbol = {}
    ELSE /\ strat.kind = "optimized"
         /\ DOMAIN strat.obj.sum_by_symbol = {}
         /\ DOMAIN strat.obj.count_by_symbol = {}

\* C7: every trial (a timing repeat, the memory run, the profiling run) feeds
\* its first tick to an instance with empty per-symbol state, and all runs of
\* one strategy over the tick list return the same signal count, whatever
\* ran before.
C7_TrialsIndependent ==
    /\ (pc \in RunStates /\ i_tick = 0) =>
          IsFresh(strategy, FactoryNames[i_factory])
    /\ \A i, j \in DOMAIN run_log :
          run_log[i].name = run_log[j].name =>
             run_log[i].count = run_log[j].count

\* One strategy has finished a timing run, the memory run and the profiling
\* run, each emitting signals.
C7_Witness ==
    \E i, j, k \in DOMAIN run_log :
        /\ run_log[i].name = run_log[j].name
        /\ run_log[j].name = run_log[k].name
        /\ run_log[i].within = "time_run"
        /\ run_log[j].within = "mem_run"
        /\ run_log[k].within = "prof_run"
        /\ run_log[i].count > 0

\* C8 and C9 through run_strategy (checked under BenchSpec): a one-tick list
\* makes every run return 0, and a run over no ticks returns 0 and leaves
\* the instance as constructed.
RunOverOneTickCountsZero ==
    Len(b_ticks) = 1 => \A j \in DOMAIN run_log : run_log[j].count = 0

RunOverNoTicksLeavesNoState ==
    Len(b_ticks) = 0 =>
        /\ \A j \in DOMAIN run_log : run_log[j].count = 0
        /\ pc \in RunStates => IsFresh(strategy, FactoryNames[i_factory])

\* ------------------------------------------- claims on symbol independence
\* What one dictionary holds for symbol s.
Entry(d, s) == [present |-> s \in DOMAIN d, value |-> DictGet(d, s, <<>>)]

\* Everything an instance holds for symbol s.
NaiveStateOf(inst, s) == Entry(inst.prices_by_symbol, s)
WindowedStateOf(inst, s) ==
    <<Entry(inst.window_by_symbol, s),
      [present |-> s \in DOMAIN inst.sum_by_symbol,
       value |-> <<DictGet(inst.sum_by_symbol, s, 0)>>]>>
OptimizedStateOf(inst, s) ==
    <<[present |-> s \in DOMAIN inst.sum_by_symbol,
       value |-> <<DictGet(inst.sum_by_symbol, s, 0)>>],
      [present |-> s \in DOMAIN inst.count_by_symbol,
       value |-> <<DictGet(inst.count_by_symbol, s, 0)>>]>>

\* The ticks of symbol s among ts, in their order.
RECURSIVE TicksOfSymbol(_, _)
TicksOfSymbol(ts, s) ==
    IF ts = <<>> THEN <<>>
    ELSE IF Head(ts).symbol = s
    THEN <<Head(ts)>> \o TicksOfSymbol(Tail(ts), s)
    ELSE TicksOfSymbol(Tail(ts), s)

\* The return values in log that belong to ticks of symbol s.
RECURSIVE ReturnsForSymbol(_, _, _)
ReturnsForSymbol(log, ts, s) ==
    IF log = <<>> THEN <<>>
    ELSE IF Head(ts).symbol = s
    THEN <<Head(log)>> \o ReturnsForSymbol(Tail(log), Tail(ts), s)
    ELSE ReturnsForSymbol(Tail(log), Tail(ts), s)

\* What an instance returns, call by call, when fed ts from its state strat.
RECURSIVE ReturnsOf(_, _)
ReturnsOf(strat, ts) ==
    IF ts = <<>> THEN <<>>
    ELSE LET r == GenerateSignals(strat, Head(ts))
         IN <<r.ret>> \o ReturnsOf(r.self, Tail(ts))

\* In every interleaving the signals for the ticks of s are those of a fresh
\* instance fed the ticks of s alone.
SignalsAsIfAlone ==
    \A s \in Symbols :
        /\ ReturnsForSymbol(sigs_naive, ticks, s)
             = ReturnsOf([kind |-> "naive", obj |-> NaiveMovingAverageStrategy],
                         TicksOfSymbol(Fed(Len(sigs_naive)), s))
        /\ ValidWindow =>
             ReturnsForSymbol(sigs_windowed, ticks, s)
               = ReturnsOf([kind |-> "windowed",
                            obj |-> WindowedMovingAverageStrategy(
                                        windowed.window_size)],
                           TicksOfSymbol(Fed(Len(sigs_windowed)), s))
        /\ ReturnsForSymbol(sigs_optimized, ticks, s)
             = ReturnsOf([kind |-> "optimized",
                          obj |-> OptimizedNaiveMovingAverageStrategy],
                         TicksOfSymbol(Fed(Len(sigs_optimized)), s))

\* A generate_signals call for a tick of one symbol leaves what the instance
\* holds for every other symbol as it was.
OtherSymbolsUntouched ==
    \A s \in Symbols :
        /\ (Len(sigs_naive') = Len(sigs_naive) + 1
              /\ ticks[Len(sigs_naive) + 1].symbol # s)
           => NaiveStateOf(naive', s) = NaiveStateOf(naive, s)
        /\ (ValidWindow /\ Len(sigs_windowed') = Len(sigs_windowed) + 1
              /\ ticks[Len(sigs_windowed) + 1].symbol # s)
           => WindowedStateOf(windowed', s) = WindowedStateOf(windowed, s)
        /\ (Len(sigs_optimized') = Len(sigs_optimized) + 1
              /\ ticks[Len(sigs_optimized) + 1].symbol # s)
           => OptimizedStateOf(optimized', s) = OptimizedStateOf(optimized, s)

\* C11: symbols are processed independently within one instance: a call for
\* a tick of symbol s leaves the state of every other symbol unchanged, and
\* in any interleaving the signals for the ticks of s are those a fresh
\* instance emits when fed only the ticks of s in the same order.
C11_SymbolsIndependent ==
    [](SignalsAsIfAlone) /\ [][OtherSymbolsUntouched]_vars

\* Two ticks of one symbol with a tick of another between them, all
\* processed by every variant, the last one giving a signal.
C11_Witness ==
    /\ ValidWindow
    /\ Len(ticks) = 3
    /\ ticks[1].symbol = ticks[3].symbol
    /\ ticks[2].symbol # ticks[1].symbol
    /\ Len(sigs_naive) = 3
    /\ Len(sigs_windowed) = 3
    /\ Len(sigs_optimized) = 3
    /\ sigs_naive[3].signals # <<>>
    /\ sigs_windowed[3].signals # <<>>
    /\ sigs_optimized[3].signals # <<>>

\* ------------------------------------------ claims on benchmark_strategies
\* The runs started for the i-th factory after its timing.
LaterRuns(i) ==
    {j \in DOMAIN run_log : /\ run_log[j].name = FactoryNames[i]
                            /\ run_log[j].within \in {"mem_run", "prof_run"}}

\* C12: benchmark_strategies appends exactly one BenchmarkResult per factory,
\* in factory order, with n_ticks the length of the tick list; a strategy
\* whose timing is None gets no further run (no memory measurement, no
\* cProfile run) and peak_memory_mb None, and the strategies after it are
\* benchmarked all the same.
C12_OneResultPerFactory ==
    /\ Len(results) \in {i_factory - 1, i_factory}
    /\ Len(results) = i_factory - 1 <=> pc \in {"time_loop", "time_run", "timed",
                                                "mem_run", "append"}
    /\ \A i \in DOMAIN results :
          /\ results[i].strategy_name = FactoryNames[i]
          /\ results[i].n_ticks = Len(b_ticks)
          /\ results[i].seconds = None =>
                /\ results[i].peak_memory_mb = None
                /\ LaterRuns(i) = {}
                /\ \A j \in DOMAIN profiled : profiled[j] # FactoryNames[i]
    /\ (pc \in {"mem_run", "prof_run"}) => secs # None
    /\ pc = "done" => Len(results) = Len(FactoryNames)

\* The benchmark has returned: the first strategy timed out on a trial it
\* ran, a later one was timed, measured and profiled.
C12_Witness ==
    /\ pc = "done"
    /\ repeats >= 1
    /\ measure_memory
    /\ cprofile_dir # None
    /\ Len(b_ticks) > 0
    /\ results[1].seconds = None
    /\ results[2].seconds # None
    /\ results[2].peak_memory_mb # None
    /\ \E j \in DOMAIN profiled : profiled[j] = FactoryNames[2]

====
